---- MODULE Spec2Model ----
(***************************************************************************)
(* The request/response pipeline of the DNS server framework: the          *)
(* middleware chain (net/server/middleware/chain.rs) and the mandatory     *)
(* processor (net/server/middleware/processors/mandatory.rs).              *)
(*                                                                         *)
(* A message is modelled by its parsed content: the header fields and, per *)
(* section, the sequence of its records, each with its encoded length in   *)
(* octets. An Option<T> is a sequence of length 0 (None) or 1 (Some).      *)
(***************************************************************************)
EXTENDS Integers, Sequences, FiniteSets, TLC

VARIABLES
    chain,      \* MiddlewareChain.processors: the kinds of the processors
    request,    \* the ContextAwareMessage being processed (hint included)
    request0,   \* the same request as it was before preprocess
    response,   \* Option of the response builder
    response0,  \* Option of the response as it was before postprocess
    flow,       \* the ControlFlow preprocess returned: "Continue" | "Break"
    lastIdx,    \* Option<usize>: the index preprocess returned with Break
    preLog,     \* indices of the processors whose preprocess was invoked
    postLog,    \* indices of the processors whose postprocess was invoked
    pc,         \* position of the request in the pipeline
    txn,        \* a Transaction: Single(Option<future>) or Stream(items left);
                \* in the pipeline the Option of the one preprocess returned
    txn0,       \* the same Transaction as it was constructed
    results,    \* what the calls of Transaction::next() returned, in order
    awaited,    \* how many times the future of a Single was awaited
    chan,       \* the watch channel of a DgramServer: value and version
    loop,       \* per task running DgramServer::run(): state, version seen
                \* by its command_rx, last command read, the error it
                \* returned with, whether shutdown() had returned Ok when
                \* it started
    dropped,    \* the DgramServer was dropped
    shutRes,    \* the last call of DgramServer::shutdown(): its result,
                \* and whether a run loop was active when it was called
    received,   \* datagrams passed to process_request
    lateRecv,   \* a datagram was received after shutdown() returned Ok
    tasks,      \* tasks spawned by handle_final_call_result, not yet run
    cmdHandled, \* handle_final_call_result got a CallResult with a command
    lastTask,   \* Option of the last task that ran: its CallResult, the
                \* peer address, and the calls of send_to it made
    bufs,       \* the buffers a VecBufSource has handed out, by reference
    lastRef,    \* Option of the last call of the VecBufSource: the size
                \* asked for and the reference returned
    lastRecv,   \* Option of the last datagram received: bytes_read and the
                \* reference of the buffer passed to process_request
    vreq,       \* Option of Request.request_msg of the validating client
    vreq0,      \* Option of the request as the caller composed it
    vout,       \* Option of the last call of get_response on the Request:
                \* what the upstream and the validator gave, what was sent
                \* upstream and what the call returned
    vcalls      \* calls of get_response made on the Request

pipeVars == <<chain, request, request0, response, response0, flow, lastIdx,
              preLog, postLog, pc>>
txnVars == <<txn, txn0, results, awaited>>
dgramVars == <<chan, loop, dropped, shutRes, received, lateRecv, tasks,
               cmdHandled, lastTask>>
bufVars == <<bufs, lastRef, lastRecv>>
valVars == <<vreq, vreq0, vout, vcalls>>

vars == <<chain, request, request0, response, response0, flow, lastIdx,
          preLog, postLog, pc, txn, txn0, results, awaited, chan, loop, dropped,
          shutRes, received, lateRecv, tasks, cmdHandled, lastTask, bufs,
          lastRef, lastRecv, vreq, vreq0, vout, vcalls>>

\* The parts of the state a specification does not use stay as they are here.
PipeOff ==
    /\ chain = <<>>
    /\ request = <<>>
    /\ request0 = <<>>
    /\ response = <<>>
    /\ response0 = <<>>
    /\ flow = "None"
    /\ lastIdx = <<>>
    /\ preLog = <<>>
    /\ postLog = <<>>
    /\ pc = "off"

TxnOff ==
    /\ txn = <<>>
    /\ txn0 = <<>>
    /\ results = <<>>
    /\ awaited = 0

DgramOff ==
    /\ chan = <<>>
    /\ loop = <<>>
    /\ dropped = FALSE
    /\ shutRes = <<>>
    /\ received = 0
    /\ lateRecv = FALSE
    /\ tasks = <<>>
    /\ cmdHandled = FALSE
    /\ lastTask = <<>>

BufOff ==
    /\ bufs = <<>>
    /\ lastRef = <<>>
    /\ lastRecv = <<>>

ValOff ==
    /\ vreq = <<>>
    /\ vreq0 = <<>>
    /\ vout = <<>>
    /\ vcalls = 0

----------------------------------------------------------------------------
(* Bounds of the model. *)

\* longest middleware chain
MaxChain == 3
\* most OPT records in the additional section of a request
MaxOpts == 2
\* most items of a Stream transaction
MaxStream == 3
\* most calls of Transaction::next() on one transaction
MaxCalls == 4
\* most explicit calls of DgramServer::shutdown()
MaxSends == 2
\* datagrams counted (the count saturates)
MaxDgrams == 1
\* most spawned tasks that have not run yet
MaxTasks == 1
\* most buffers created by one VecBufSource
MaxBufs == 3
\* longest datagram on the wire
MaxDgramLen == 1100

(* Program constants. *)

\* RFC 6891 6.2.3: the least requestor's UDP payload size
MinPayload == 512
\* the length of the buffer VecBufSource::create_buf() makes
DefaultBufLen == 1024

----------------------------------------------------------------------------
(* Sample data. *)

None == <<>>
Some(x) == <<x>>

ReqIds == {0, 4660}
OtherId(id) == IF id = 0 THEN 4660 ELSE 0

\* requestor's UDP payload sizes (the CLASS field of an OPT record)
Classes == {511, 512, 1232}

\* An OPT record of a request: its class, and whether its data parses
\* (limit_to::<Opt> yields Result<Record, ParseError>).
OptRecs == [class : Classes, ok : BOOLEAN]

RECURSIVE SeqsUpTo(_, _)
SeqsUpTo(S, n) ==
    IF n = 0 THEN {<<>>}
    ELSE LET shorter == SeqsUpTo(S, n - 1)
         IN shorter \cup {Append(s, x) : s \in {t \in shorter : Len(t) = n - 1}, x \in S}

\* The OPT records of a request. A record that does not parse is only
\* considered alone: what the record iterator yields after an error is
\* decided outside the code under study.
OptLists ==
    {o \in SeqsUpTo(OptRecs, MaxOpts) :
        Len(o) > 1 => \A k \in 1..Len(o) : o[k].ok}

Hints == {None, Some(512), Some(1232)}

\* A request: header id, RD and opcode, the transport it arrived over, the
\* UDP max_response_size_hint, whether its additional section can be
\* reached (Message::additional() is Ok), and the OPT records there.
Requests ==
    {r \in [id : ReqIds, rd : BOOLEAN, opcode : {"Query", "Notify"},
            transport : {"udp", "tcp"}, hint : Hints,
            addlOk : BOOLEAN, opts : OptLists] :
        /\ r.transport = "tcp" => r.hint = None
        /\ ~r.addlOk => r.opts = <<>>}

\* Records by type and encoded length.
Q17 == [t |-> "Q", len |-> 17]
Q259 == [t |-> "Q", len |-> 259]
RrA == [t |-> "A", len |-> 16]
RrTxt == [t |-> "TXT", len |-> 600]
RrNs == [t |-> "NS", len |-> 30]
OptPlain == [t |-> "OPT", len |-> 11]
OptBig == [t |-> "OPT", len |-> 611]

\* Header samples: the fresh builder's header, an answer header, and one
\* that disagrees with any request in ID, QR or RD.
Headers ==
    { [id |-> 0, qr |-> FALSE, rd |-> FALSE, tc |-> FALSE, aa |-> FALSE,
       opcode |-> "Query", rcode |-> "NoError"],
      [id |-> 4660, qr |-> TRUE, rd |-> TRUE, tc |-> FALSE, aa |-> TRUE,
       opcode |-> "Query", rcode |-> "NoError"],
      [id |-> 4660, qr |-> FALSE, rd |-> FALSE, tc |-> TRUE, aa |-> FALSE,
       opcode |-> "Notify", rcode |-> "NXDomain"] }

Responses ==
    {[id |-> h.id, qr |-> h.qr, rd |-> h.rd, tc |-> h.tc, aa |-> h.aa,
      opcode |-> h.opcode, rcode |-> h.rcode,
      question |-> q, answer |-> an, authority |-> au, additional |-> ad,
      opt |-> o] :
        h \in Headers,
        q \in {<<Q17>>, <<Q259>>, <<Q259, Q17>>},
        an \in {<<>>, <<RrA>>, <<RrA, RrTxt>>},
        au \in {<<>>, <<RrNs>>},
        ad \in {<<>>, <<RrA>>},
        o \in {None, Some(OptPlain), Some(OptBig)}}

----------------------------------------------------------------------------
(* Messages. *)

RECURSIVE SumLen(_)
SumLen(s) == IF s = <<>> THEN 0 ELSE Head(s).len + SumLen(Tail(s))

\* response.as_slice().len(): the 12 octet header and the records of the
\* four sections (the OPT record is part of the additional section).
MsgLen(m) ==
    12 + SumLen(m.question) + SumLen(m.answer) + SumLen(m.authority)
       + SumLen(m.additional) + SumLen(m.opt)

\* mk_builder_for_target(): an empty message with an all-zero header.
MkBuilderForTarget ==
    [id |-> 0, qr |-> FALSE, rd |-> FALSE, tc |-> FALSE, aa |-> FALSE,
     opcode |-> "Query", rcode |-> "NoError",
     question |-> <<>>, answer |-> <<>>, authority |-> <<>>,
     additional |-> <<>>, opt |-> None]

----------------------------------------------------------------------------
(* MandatoryMiddlewareProcessor. *)

\* Truncation that copies the whole additional section, not only its OPT.
TruncateKeepAdditional(req, resp) ==
    IF /\ req.transport = "udp"
       /\ req.hint # None
       /\ MsgLen(resp) > req.hint[1]
    THEN [resp EXCEPT !.tc = TRUE, !.answer = <<>>, !.authority = <<>>]
    ELSE resp

\* Truncation to 512 octets when the request has no hint, on any transport.
TruncateWithoutHint(req, resp) ==
    IF MsgLen(resp) > (IF req.hint # None THEN req.hint[1] ELSE MinPayload)
    THEN [MkBuilderForTarget EXCEPT
                !.id = resp.id, !.qr = resp.qr, !.rd = resp.rd,
                !.tc = TRUE, !.aa = resp.aa,
                !.opcode = resp.opcode, !.rcode = resp.rcode,
                !.question = resp.question,
                !.opt = resp.opt]
    ELSE resp

\* Truncation that starts from a fresh header and copies the question in
\* reverse.
TruncateFreshHeader(req, resp) ==
    IF /\ req.transport = "udp"
       /\ req.hint # None
       /\ MsgLen(resp) > req.hint[1]
    THEN [MkBuilderForTarget EXCEPT
                !.tc = TRUE,
                !.question = [k \in 1..Len(resp.question) |->
                                resp.question[Len(resp.question) + 1 - k]],
                !.opt = resp.opt]
    ELSE resp

\* truncate(): for a UDP request with a hint, a response longer than the
\* hint is marked TC and rebuilt from its header, its question and its OPT
\* record; the answer and authority sections stay empty.
Truncate(req, resp) ==
    IF /\ req.transport = "udp"
       /\ req.hint # None
       /\ MsgLen(resp) > req.hint[1]
    THEN LET source == [resp EXCEPT !.tc = TRUE]
         IN [MkBuilderForTarget EXCEPT
                !.id = source.id, !.qr = source.qr, !.rd = source.rd,
                !.tc = source.tc, !.aa = source.aa,
                !.opcode = source.opcode, !.rcode = source.rcode,
                !.question = source.question,
                !.opt = source.opt]
    ELSE resp

\* Preprocess that sets the hint from the first OPT record before it looks
\* for a second one.
MandatoryPreprocessHintFirst(req) ==
    LET hinted ==
            IF /\ req.addlOk
               /\ Len(req.opts) >= 1
               /\ req.transport = "udp"
               /\ req.opts[1].ok
               /\ ~(req.opts[1].class < MinPayload)
               /\ req.hint = None
            THEN [req EXCEPT !.hint = Some(req.opts[1].class)]
            ELSE req
    IN IF req.addlOk /\ Len(req.opts) > 1
       THEN [flow |-> "Break", request |-> hinted,
             response |-> Some([MkBuilderForTarget EXCEPT !.rcode = "FormErr"])]
       ELSE [flow |-> "Continue", request |-> hinted, response |-> None]

\* Preprocess that takes the hint from the class without the check against
\* 512.
MandatoryPreprocessNoFloor(req) ==
    LET hinted ==
            IF /\ req.addlOk
               /\ Len(req.opts) = 1
               /\ req.transport = "udp"
               /\ req.opts[1].ok
               /\ req.hint = None
            THEN [req EXCEPT !.hint = Some(req.opts[1].class)]
            ELSE req
    IN IF req.addlOk /\ Len(req.opts) > 1
       THEN [flow |-> "Break", request |-> req,
             response |-> Some([MkBuilderForTarget EXCEPT !.rcode = "FormErr"])]
       ELSE [flow |-> "Continue", request |-> hinted, response |-> None]

\* Preprocess that takes a payload size of exactly 512 as too small.
MandatoryPreprocessOffByOne(req) ==
    LET hinted ==
            IF /\ req.addlOk
               /\ Len(req.opts) = 1
               /\ req.transport = "udp"
               /\ req.opts[1].ok
               /\ ~(req.opts[1].class <= MinPayload)
               /\ req.hint = None
            THEN [req EXCEPT !.hint = Some(req.opts[1].class)]
            ELSE req
    IN IF req.addlOk /\ Len(req.opts) > 1
       THEN [flow |-> "Break", request |-> req,
             response |-> Some([MkBuilderForTarget EXCEPT !.rcode = "FormErr"])]
       ELSE [flow |-> "Continue", request |-> hinted, response |-> None]

\* preprocess(): FORMERR for more than one OPT record; for a UDP request
\* with one OPT record of class >= 512 the hint is set from the class when
\* no hint is set yet.
MandatoryPreprocess(req) ==
    LET second == req.addlOk /\ Len(req.opts) > 1
        new_max_response_size_hint ==
            IF /\ req.addlOk
               /\ Len(req.opts) = 1
               /\ req.transport = "udp"
               /\ req.opts[1].ok
               /\ ~(req.opts[1].class < MinPayload)
               /\ req.hint = None
            THEN Some(req.opts[1].class)
            ELSE None
    IN IF second
       THEN [flow |-> "Break", request |-> req,
             response |-> Some([MkBuilderForTarget EXCEPT !.rcode = "FormErr"])]
       ELSE [flow |-> "Continue",
             request |-> IF new_max_response_size_hint # None
                         THEN [req EXCEPT !.hint = new_max_response_size_hint]
                         ELSE req,
             response |-> None]

\* Postprocess that forgets to copy RD.
MandatoryPostprocessNoRd(req, resp) ==
    [Truncate(req, resp) EXCEPT !.id = req.id, !.qr = TRUE]

\* postprocess(): truncate, then copy ID and RD from the request and set QR.
MandatoryPostprocess(req, resp) ==
    [Truncate(req, resp) EXCEPT !.id = req.id, !.qr = TRUE, !.rd = req.rd]

----------------------------------------------------------------------------
(* Processors of a chain. Beside the mandatory processor a chain holds     *)
(* implementations of the MiddlewareProcessor trait: one that lets every    *)
(* request pass and rewrites the response header, and one that refuses      *)
(* every request.                                                           *)

Kinds == {"Mandatory", "Scramble", "Refuse"}

ProcPreprocess(kind, req) ==
    CASE kind = "Mandatory" -> MandatoryPreprocess(req)
      [] kind = "Refuse" ->
            [flow |-> "Break", request |-> req,
             response |-> Some([MkBuilderForTarget EXCEPT !.rcode = "Refused"])]
      [] OTHER -> [flow |-> "Continue", request |-> req, response |-> None]

ProcPostprocess(kind, req, resp) ==
    CASE kind = "Mandatory" -> MandatoryPostprocess(req, resp)
      [] kind = "Scramble" ->
            [resp EXCEPT !.id = OtherId(req.id), !.qr = FALSE, !.rd = ~req.rd]
      [] OTHER -> resp

----------------------------------------------------------------------------
(* Transaction (net/server/service.rs): a future is modelled by the item   *)
(* it yields when awaited, a stream by the items it still has to yield.    *)

\* ServiceResultItem values: two Ok(CallResult) and an Err(ServiceError).
Items == {"OkA", "OkB", "Err"}

\* Transaction::single()
TransactionSingle(fut) ==
    [kind |-> "Single", fut |-> Some(fut), items |-> <<>>]

\* Transaction::stream()
TransactionStream(stream) ==
    [kind |-> "Stream", fut |-> None, items |-> stream]

\* next() that looks at the future of a Single without taking it.
TransactionNextNoTake(t) ==
    IF t.kind = "Single"
    THEN IF t.fut # None
         THEN [txn |-> t, item |-> Some(t.fut[1]), awaits |-> 1]
         ELSE [txn |-> t, item |-> None, awaits |-> 0]
    ELSE IF t.items # <<>>
         THEN [txn |-> [t EXCEPT !.items = Tail(t.items)],
               item |-> Some(Head(t.items)), awaits |-> 0]
         ELSE [txn |-> t, item |-> None, awaits |-> 0]

\* Transaction::next(): the transaction afterwards, the Option<Item>
\* returned, and how many times the future of a Single was awaited.
TransactionNext(t) ==
    IF t.kind = "Single"
    THEN IF t.fut # None
         THEN [txn |-> [t EXCEPT !.fut = None], item |-> Some(t.fut[1]),
               awaits |-> 1]
         ELSE [txn |-> t, item |-> None, awaits |-> 0]
    ELSE IF t.items # <<>>
         THEN [txn |-> [t EXCEPT !.items = Tail(t.items)],
               item |-> Some(Head(t.items)), awaits |-> 0]
         ELSE [txn |-> t, item |-> None, awaits |-> 0]

----------------------------------------------------------------------------
(* MiddlewareChain. *)

\* A loop that notes a Break and goes on to the processors after it.
RECURSIVE PreWalkNoStop(_, _, _, _)
PreWalkNoStop(ch, i, req, log) ==
    IF i >= Len(ch)
    THEN [flow |-> "Continue", request |-> req, response |-> None,
          idx |-> None, log |-> log]
    ELSE LET r == ProcPreprocess(ch[i + 1], req)
             rest == PreWalkNoStop(ch, i + 1, r.request, Append(log, i))
         IN IF r.flow = "Break"
            THEN [flow |-> "Break", request |-> r.request,
                  response |-> r.response, idx |-> Some(i),
                  log |-> rest.log]
            ELSE rest

\* The loop of preprocess(): processor i (from 0) is ch[i + 1].
RECURSIVE PreWalk(_, _, _, _)
PreWalk(ch, i, req, log) ==
    IF i >= Len(ch)
    THEN [flow |-> "Continue", request |-> req, response |-> None,
          idx |-> None, log |-> log]
    ELSE LET r == ProcPreprocess(ch[i + 1], req)
         IN IF r.flow = "Break"
            THEN [flow |-> "Break", request |-> r.request,
                  response |-> r.response, idx |-> Some(i),
                  log |-> Append(log, i)]
            ELSE PreWalk(ch, i + 1, r.request, Append(log, i))

\* CallResult::new(response): a response and no command.
CallResultNew(resp) == [response |-> resp, command |-> None]

\* Transaction::immediate(item): a Single whose future is ready with the
\* item.
TransactionImmediate(item) == TransactionSingle(item)

\* preprocess(): on Break the response is returned as the one item of a
\* transaction, with the index of the processor that broke off.
ChainPreprocess(ch, req) ==
    LET w == PreWalk(ch, 0, req, <<>>)
    IN [flow |-> w.flow, request |-> w.request, response |-> w.response,
        idx |-> w.idx, log |-> w.log,
        txn |-> IF w.flow = "Break"
                THEN Some(TransactionImmediate(
                            [ok |-> TRUE,
                             result |-> CallResultNew(w.response[1])]))
                ELSE None]

\* processors.iter().rev().for_each(..) over a slice of k processors.
RECURSIVE PostWalk(_, _, _, _, _)
PostWalk(processors, k, req, resp, log) ==
    IF k = 0
    THEN [response |-> resp, log |-> log]
    ELSE PostWalk(processors, k - 1, req,
                  ProcPostprocess(processors[k], req, resp),
                  Append(log, k - 1))

\* Postprocess that ignores last_processor_idx and walks the whole chain.
ChainPostprocessAll(ch, req, resp, last_processor_idx) ==
    PostWalk(ch, Len(ch), req, resp, <<>>)

RECURSIVE PostWalkForward(_, _, _, _, _)
PostWalkForward(processors, k, req, resp, log) ==
    IF k > Len(processors)
    THEN [response |-> resp, log |-> log]
    ELSE PostWalkForward(processors, k + 1, req,
                         ProcPostprocess(processors[k], req, resp),
                         Append(log, k - 1))

\* Postprocess that walks its slice forward (a missing .rev()).
ChainPostprocessForward(ch, req, resp, last_processor_idx) ==
    LET processors == IF last_processor_idx # None
                      THEN SubSeq(ch, 1, last_processor_idx[1])
                      ELSE ch
    IN PostWalkForward(processors, 1, req, resp, <<>>)

\* postprocess(): the slice is processors[..end] for Some(end), else all.
ChainPostprocess(ch, req, resp, last_processor_idx) ==
    LET processors == IF last_processor_idx # None
                      THEN SubSeq(ch, 1, last_processor_idx[1])
                      ELSE ch
    IN PostWalk(processors, Len(processors), req, resp, <<>>)

----------------------------------------------------------------------------
(* The pipeline of one server: a request is received, pre-processed by the *)
(* chain, answered by the service unless a processor broke off, and the    *)
(* response is post-processed by the chain and sent.                       *)

Chains == SeqsUpTo(Kinds, MaxChain)

\* OPT records of the requests that arrive from the network.
WireOpts ==
    { <<>>,
      <<[class |-> 511, ok |-> TRUE]>>,
      <<[class |-> 512, ok |-> TRUE]>>,
      <<[class |-> 1232, ok |-> TRUE]>>,
      <<[class |-> 1232, ok |-> TRUE], [class |-> 512, ok |-> TRUE]>> }

\* ContextAwareMessage::new(): a request as received has no hint.
WireRequests ==
    [id : ReqIds, rd : BOOLEAN, opcode : {"Query"},
     transport : {"udp", "tcp"}, hint : {None},
     addlOk : {TRUE}, opts : WireOpts]

\* Responses a service builds.
ServiceResponses ==
    {r \in Responses :
        /\ r.question = <<Q17>>
        /\ r.authority = <<>>
        /\ r.additional = <<>>
        /\ r.opcode = "Query"}

Init ==
    /\ chain \in Chains
    /\ request \in WireRequests
    /\ request0 = request
    /\ response = None
    /\ response0 = None
    /\ flow = "None"
    /\ lastIdx = None
    /\ preLog = <<>>
    /\ postLog = <<>>
    /\ pc = "received"
    /\ TxnOff
    /\ DgramOff
    /\ BufOff
    /\ ValOff

\* The next request arrives.
Receive ==
    /\ pc = "sent"
    /\ \E req \in WireRequests :
          /\ request' = req
          /\ request0' = req
    /\ response' = None
    /\ response0' = None
    /\ flow' = "None"
    /\ lastIdx' = None
    /\ preLog' = <<>>
    /\ postLog' = <<>>
    /\ pc' = "received"
    /\ txn' = None
    /\ txn0' = None
    /\ UNCHANGED <<results, awaited, dgramVars, bufVars, valVars>>
    /\ UNCHANGED chain

\* MiddlewareChain::preprocess() on the received request.
Preprocess ==
    /\ pc = "received"
    /\ LET r == ChainPreprocess(chain, request)
       IN /\ request' = r.request
          /\ flow' = r.flow
          /\ lastIdx' = r.idx
          /\ response' = r.response
          /\ preLog' = r.log
          /\ pc' = IF r.flow = "Break" THEN "post" ELSE "service"
          /\ txn' = r.txn
          /\ txn0' = r.txn
    /\ UNCHANGED <<results, awaited, dgramVars, bufVars, valVars>>
    /\ UNCHANGED <<chain, request0, response0, postLog>>

\* The service answers a request that no processor broke off.
CallService ==
    /\ pc = "service"
    /\ \E resp \in ServiceResponses : response' = Some(resp)
    /\ pc' = "post"
    /\ UNCHANGED <<txnVars, dgramVars, bufVars, valVars>>
    /\ UNCHANGED <<chain, request, request0, response0, flow, lastIdx,
                   preLog, postLog>>

\* MiddlewareChain::postprocess() on the response, with the index that
\* preprocess returned (None after Continue).
Postprocess ==
    /\ pc = "post"
    /\ LET r == ChainPostprocess(chain, request, response[1], lastIdx)
       IN /\ response' = Some(r.response)
          /\ postLog' = r.log
    /\ response0' = response
    /\ pc' = "posted"
    /\ UNCHANGED <<txnVars, dgramVars, bufVars, valVars>>
    /\ UNCHANGED <<chain, request, request0, flow, lastIdx, preLog>>

\* The post-processed response is written to the wire.
Send ==
    /\ pc = "posted"
    /\ pc' = "sent"
    /\ UNCHANGED <<txnVars, dgramVars, bufVars, valVars>>
    /\ UNCHANGED <<chain, request, request0, response, response0, flow,
                   lastIdx, preLog, postLog>>

Next == Receive \/ Preprocess \/ CallService \/ Postprocess \/ Send

Spec == Init /\ [][Next]_vars

----------------------------------------------------------------------------
(* The mandatory processor on its own: preprocess and postprocess applied  *)
(* to any request and any response.                                        *)

InitMandatory ==
    /\ chain = <<"Mandatory">>
    /\ request \in Requests
    /\ request0 = request
    /\ response = None
    /\ response0 = None
    /\ flow = "None"
    /\ lastIdx = None
    /\ preLog = <<>>
    /\ postLog = <<>>
    /\ pc = "unit"
    /\ TxnOff
    /\ DgramOff
    /\ BufOff
    /\ ValOff

UnitPreprocess ==
    /\ pc = "unit"
    /\ LET r == MandatoryPreprocess(request)
       IN /\ request' = r.request
          /\ flow' = r.flow
          /\ response' = r.response
    /\ pc' = "unit_pre"
    /\ UNCHANGED <<txnVars, dgramVars, bufVars, valVars>>
    /\ UNCHANGED <<chain, request0, response0, lastIdx, preLog, postLog>>

UnitPostprocess ==
    /\ \/ pc = "unit"
       \/ pc = "unit_pre" /\ flow = "Continue"
    /\ \E resp \in Responses :
          /\ response0' = Some(resp)
          /\ response' = Some(MandatoryPostprocess(request, resp))
    /\ pc' = "unit_post"
    /\ UNCHANGED <<txnVars, dgramVars, bufVars, valVars>>
    /\ UNCHANGED <<chain, request, request0, flow, lastIdx, preLog, postLog>>

NextMandatory == UnitPreprocess \/ UnitPostprocess

SpecMandatory == InitMandatory /\ [][NextMandatory]_vars

----------------------------------------------------------------------------
(* Properties of the middleware chain, checked under Spec. *)

\* <<i, i-1, ..., 0>> and <<0, 1, ..., n-1>>
Down(i) == [k \in 1..(i + 1) |-> i + 1 - k]
Up(n) == [k \in 1..n |-> k - 1]
Range(s) == {s[k] : k \in DOMAIN s}

PostDone == pc \in {"posted", "sent"}

\* C1: after preprocess returned Break with index i, postprocess(.., Some(i))
\* invokes the postprocess of processors i, i-1, ..., 0 in that order, the
\* breaking processor included.
C1_BreakPostStartsAtBreaker ==
    (PostDone /\ flow = "Break") => postLog = Down(lastIdx[1])

\* C2: with the mandatory processor first in the chain, every response on
\* the wire has the request's ID, QR = 1 and the request's RD, a response
\* produced by a preprocess Break included.
C2_WireHeaderMatchesRequest ==
    (pc = "sent" /\ Len(chain) >= 1 /\ chain[1] = "Mandatory") =>
        /\ response[1].id = request.id
        /\ response[1].qr
        /\ response[1].rd = request.rd

\* C3: a processor is post-processed only if it was pre-processed for the
\* same request; after a Break at index i no processor with a greater index
\* is post-processed.
C3_PostOnlyIfPre ==
    PostDone =>
        /\ Range(postLog) \subseteq Range(preLog)
        /\ flow = "Break" => \A k \in Range(postLog) : k <= lastIdx[1]

C3_Witness ==
    /\ pc = "posted"
    /\ flow = "Break"
    /\ lastIdx = Some(1)
    /\ Len(chain) = 3
    /\ postLog # <<>>

\* C4: after Continue for a chain of N processors, postprocess(.., None)
\* invokes every processor's postprocess exactly once in the order N-1, ...,
\* 0, the reverse of the order 0, ..., N-1 of their preprocess.
C4_ContinuePostWalksAllBackward ==
    (PostDone /\ flow = "Continue") =>
        /\ lastIdx = None
        /\ preLog = Up(Len(chain))
        /\ postLog = Down(Len(chain) - 1)

C4_Witness ==
    /\ pc = "posted"
    /\ flow = "Continue"
    /\ Len(chain) = 3
    /\ postLog = <<2, 1, 0>>

----------------------------------------------------------------------------
(* Properties of the mandatory processor, checked under SpecMandatory. *)

UdpHinted(req) == req.transport = "udp" /\ req.hint # None

\* C5: postprocess leaves every response, truncated or not and on any
\* transport, with the request's ID, QR = 1 and the request's RD.
C5_PostHeaderFixups ==
    pc = "unit_post" =>
        /\ response[1].id = request.id
        /\ response[1].qr
        /\ response[1].rd = request.rd

C5_Witness ==
    /\ pc = "unit_post"
    /\ response0[1].id # request.id
    /\ ~response0[1].qr
    /\ response0[1].rd # request.rd
    /\ response0[1].answer # <<>>
    /\ response[1].answer = <<>>

\* C6: for a UDP request with hint h and a response longer than h,
\* postprocess yields TC = 1, empty answer and authority sections and an
\* additional section with no record other than the OPT record.
C6_TruncatedShape ==
    (/\ pc = "unit_post"
     /\ UdpHinted(request)
     /\ MsgLen(response0[1]) > request.hint[1]) =>
        /\ response[1].tc
        /\ response[1].answer = <<>>
        /\ response[1].authority = <<>>
        /\ response[1].additional = <<>>

C6_Witness ==
    /\ pc = "unit_post"
    /\ UdpHinted(request)
    /\ MsgLen(response0[1]) > request.hint[1]
    /\ ~response0[1].tc
    /\ response0[1].answer # <<>>
    /\ response0[1].authority # <<>>
    /\ response0[1].additional # <<>>
    /\ response0[1].opt # None
    /\ response[1].opt = response0[1].opt

\* C7: after postprocess of a UDP response for a request with hint h the
\* response is at most h octets long, whatever the sizes of the question
\* and of the OPT record.
C7_PostLengthWithinHint ==
    (pc = "unit_post" /\ UdpHinted(request)) =>
        MsgLen(response[1]) <= request.hint[1]

\* C8: if the request has no OPT record, the response after postprocess has
\* none either, even when the service put one in.
C8_NoOptWithoutRequestOpt ==
    (pc = "unit_post" /\ request.opts = <<>>) => response[1].opt = None

\* C9: a request with more than one OPT record, on UDP or TCP, gets Break
\* with a FORMERR response and keeps its hint; a request with no or one OPT
\* record gets Continue.
C9_MultiOptFormErr ==
    pc = "unit_pre" =>
        /\ Len(request0.opts) > 1 =>
              /\ flow = "Break"
              /\ response # None
              /\ response[1].rcode = "FormErr"
              /\ request.hint = request0.hint
        /\ Len(request0.opts) <= 1 =>
              /\ flow = "Continue"
              /\ response = None

C9_Witness ==
    /\ pc = "unit_pre"
    /\ Len(request0.opts) > 1
    /\ request0.transport = "udp"
    /\ request0.hint = None
    /\ request0.opts[1].class >= MinPayload
    /\ flow = "Break"

\* A UDP request with exactly one OPT record, which parses, of class >= 512.
OneBigOpt(req) ==
    /\ req.transport = "udp"
    /\ req.addlOk
    /\ Len(req.opts) = 1
    /\ req.opts[1].ok
    /\ req.opts[1].class >= MinPayload

C12_SmallPayloadTreatedAs512 ==
    (/\ pc = "unit_post"
     /\ flow = "Continue"
     /\ request0.transport = "udp"
     /\ request0.hint = None
     /\ Len(request0.opts) = 1
     /\ request0.opts[1].ok
     /\ request0.opts[1].class < MinPayload
     /\ MsgLen(response0[1]) > MinPayload) =>
        response[1] =
            MandatoryPostprocess([request0 EXCEPT !.hint = Some(MinPayload)],
                                 response0[1])

\* C13: for a request whose opcode is not QUERY, preprocess returns Break
\* with a NOTIMP response.
C13_NonQueryNotImp ==
    (pc = "unit_pre" /\ request0.opcode # "Query") =>
        /\ flow = "Break"
        /\ response # None
        /\ response[1].rcode = "NotImp"

----------------------------------------------------------------------------
(* A Transaction and the calls of next() on it.                            *)

InitTxn ==
    /\ txn \in {TransactionSingle(i) : i \in Items}
               \cup {TransactionStream(st) : st \in SeqsUpTo(Items, MaxStream)}
    /\ txn0 = txn
    /\ results = <<>>
    /\ awaited = 0
    /\ PipeOff
    /\ DgramOff
    /\ BufOff
    /\ ValOff

\* A consumer calls next() on the transaction.
TxnNext ==
    /\ Len(results) < MaxCalls
    /\ LET r == TransactionNext(txn)
       IN /\ txn' = r.txn
          /\ results' = Append(results, r.item)
          /\ awaited' = awaited + r.awaits
    /\ UNCHANGED <<txn0, pipeVars, dgramVars, bufVars, valVars>>

NextTxn == TxnNext

SpecTxn == InitTxn /\ [][NextTxn]_vars

\* C14: a Transaction::Single yields exactly one item: the first next()
\* returns Some(the future's output), every later next() returns None, and
\* the future is awaited at most once.
C14_SingleYieldsOnce ==
    txn0.kind = "Single" =>
        /\ awaited <= 1
        /\ awaited = 1 <=> results # <<>>
        /\ \A k \in 1..Len(results) :
              results[k] = IF k = 1 THEN Some(txn0.fut[1]) ELSE None

C14_Witness ==
    /\ txn0.kind = "Single"
    /\ Len(results) >= 3
    /\ results[1] = Some("OkA")
    /\ results[3] = None

----------------------------------------------------------------------------
(* DgramServer (net/server/dgram.rs). One server, whose run() may execute  *)
(* in several tasks. One poll of the select of run_until_error is up to    *)
(* two steps, as the select polls its arms in the order written: the       *)
(* command arm, and when that is pending the receive arm. shutdown() may   *)
(* be called from another thread between the two.                          *)

\* the tasks that may execute run() of the server
Loops == {1, 2}

Commands == {"Init", "Reconfigure", "Shutdown", "CloseConnection"}

\* watch::channel(init): the value and its version.
WatchChannel(init) == [val |-> init, ver |-> 0]

\* watch::Sender::send(): fails when no receiver is left, else stores the
\* value and marks it as changed for every receiver.
WatchSend(ch, cmd, receivers) ==
    IF receivers = 0
    THEN [chan |-> ch, res |-> "Err"]
    ELSE [chan |-> [val |-> cmd, ver |-> ch.ver + 1], res |-> "Ok"]

\* run_until_error has been entered and has not returned
Active(r) == r.st \in {"running", "polling"}

\* The receivers of the channel, were the server to keep none itself.
ReceiversLoopsOnly(lp) == Cardinality({l \in Loops : Active(lp[l])})

\* The receivers of the channel: command_rx of the server itself and the
\* clone each running run_until_error holds.
Receivers(lp) == 1 + Cardinality({l \in Loops : Active(lp[l])})

\* shutdown(): the channel afterwards and the Result returned.
ShutdownServer(ch, receivers) ==
    LET r == WatchSend(ch, "Shutdown", receivers)
    IN [chan |-> r.chan,
        res |-> IF r.res = "Ok" THEN "Ok" ELSE "CommandCouldNotBeSent"]

\* A drop that does not shut the server down.
DropServerNoSend(ch, receivers) == ch

\* Drop::drop(): let _ = self.shutdown()
DropServer(ch, receivers) == ShutdownServer(ch, receivers).chan

\* A clone that counts the value in the channel as seen.
StartSeenCurrent(ch) == ch.ver

\* command_rx.clone() at the start of run_until_error: the clone has seen
\* what command_rx of the server has seen, the initial value only.
StartSeen(ch) == WatchChannel("Init").ver

\* command_rx.changed() is ready
ChangedReady(ch, seen) == ch.ver # seen

\* The select is biased: the receive arm is polled only when changed() is
\* pending.
RecvArmEnabled(ch, seen) == ~ChangedReady(ch, seen)

\* A command match whose Reconfigure arm leaves the loop.
HandleCommandReconfigureBreaks(cmd) ==
    CASE cmd = "Reconfigure" -> "ok"
      [] cmd = "Shutdown" -> "ok"
      [] OTHER -> "panic"

\* match cmd: the state of the loop after the command.
HandleCommand(cmd) ==
    CASE cmd = "Reconfigure" -> "running"
      [] cmd = "Shutdown" -> "ok"
      [] cmd = "Init" -> "panic"
      [] cmd = "CloseConnection" -> "panic"

\* peer addresses
Addrs == {"peerA", "peerB"}

\* The buffer of a StreamTarget: the message behind its two octet length
\* prefix.
StreamTarget(msg) == <<Len(msg) \div 256, Len(msg) % 256>> \o msg

\* StreamTarget::as_stream_slice(): the buffer, prefix included.
AsStreamSlice(buf) == buf

\* StreamTarget::as_dgram_slice(): the buffer without the length prefix.
AsDgramSlice(buf) == SubSeq(buf, 3, Len(buf))

\* CallResults of a service: with or without response, with or without
\* command.
CallResults ==
    { [resp |-> None, cmd |-> None],
      [resp |-> Some(StreamTarget(<<7>>)), cmd |-> None],
      [resp |-> Some(StreamTarget(<<7, 8, 9>>)),
       cmd |-> Some("CloseConnection")] }

\* The CallResults the service makes for the requests of a peer.
ServiceResults(addr) ==
    IF addr = "peerA"
    THEN {cr \in CallResults : cr.cmd = None}
    ELSE {cr \in CallResults : cr.cmd # None}

\* A final call result whose command is put into the command channel.
ChannelAfterCallResultSends(ch, cr) ==
    IF cr.cmd # None THEN [val |-> cr.cmd[1], ver |-> ch.ver + 1] ELSE ch

\* handle_final_call_result(CallResult { response, .. }, ..): the command
\* of the CallResult is not looked at.
ChannelAfterCallResult(ch, cr) == ch

\* What sock.poll_send_to() may return for the data: an error (None), or
\* the number of octets sent, all of them or fewer.
SendPolls(data) == {None, Some(Len(data)), Some(Len(data) - 1)}

\* send_to(): Ok only when the socket sent all of the data.
SendTo(data, polled) ==
    IF polled = None THEN "IoError"
    ELSE IF polled[1] # Len(data) THEN "ShortSend"
    ELSE "Ok"

\* A task that sends the stream slice of the response.
FinalCallResultStreamSlice(cr, addr, polled) ==
    IF cr.resp # None
    THEN LET bytes == AsStreamSlice(cr.resp[1])
         IN <<[dest |-> addr, data |-> bytes,
               res |-> SendTo(bytes, IF polled = None THEN polled
                                     ELSE Some(Len(bytes)))]>>
    ELSE <<>>

\* The task spawned by handle_final_call_result: the calls of send_to it
\* makes. The result of send_to is dropped.
FinalCallResult(cr, addr, polled) ==
    IF cr.resp # None
    THEN LET bytes == AsDgramSlice(cr.resp[1])
         IN <<[dest |-> addr, data |-> bytes, res |-> SendTo(bytes, polled)]>>
    ELSE <<>>

\* A task that is cancelled once no run() is executing.
TaskRunsWhileActive(lp) == \E l \in Loops : Active(lp[l])

\* tokio::spawn(): the task is detached from run() and runs whatever the
\* state of the run loops.
TaskRuns(lp) == TRUE

\* process_request(): Err for a buffer that does not parse as a message,
\* else the request is dispatched to the service.
ProcessRequest(parses) == IF parses THEN "Ok" ELSE "Err"

RecvError == "Error while receiving message"
ProcessError == "Error while processing message"
ShortSendError == "short send"

\* What run() has logged with error!(): the error of every run_until_error
\* that returned Err.
ErrorLog == {loop[l].why : l \in {m \in Loops : loop[m].st = "err"}}

Min(a, b) == IF a < b THEN a ELSE b

RemoveAt(seq, i) == SubSeq(seq, 1, i - 1) \o SubSeq(seq, i + 1, Len(seq))

InitDgram ==
    /\ chan = WatchChannel("Init")
    /\ loop = [l \in Loops |-> [st |-> "new", seen |-> 0, last |-> "none",
                                why |-> "none", afterShut |-> FALSE]]
    /\ dropped = FALSE
    /\ shutRes = [res |-> "none", ctx |-> "none"]
    /\ received = 0
    /\ lateRecv = FALSE
    /\ tasks = <<>>
    /\ cmdHandled = FALSE
    /\ lastTask = None
    /\ PipeOff
    /\ TxnOff
    /\ BufOff
    /\ ValOff

\* A task starts run().
StartRunOf(l) ==
    /\ ~dropped
    /\ loop[l].st = "new"
    /\ loop' = [loop EXCEPT ![l].st = "running",
                            ![l].seen = StartSeen(chan),
                            ![l].afterShut = (shutRes.res = "Ok")]
    /\ UNCHANGED <<chan, dropped, shutRes, received, lateRecv, tasks,
                   cmdHandled, lastTask, pipeVars, txnVars, bufVars, valVars>>

StartRun == \E l \in Loops : StartRunOf(l)

\* The first arm of the select: a command was placed in the channel.
RunCommandOf(l) ==
    /\ loop[l].st = "running"
    /\ ChangedReady(chan, loop[l].seen)
    /\ loop' = [loop EXCEPT ![l].st = HandleCommand(chan.val),
                            ![l].seen = chan.ver,
                            ![l].last = chan.val]
    /\ UNCHANGED <<chan, dropped, shutRes, received, lateRecv, tasks,
                   cmdHandled, lastTask, pipeVars, txnVars, bufVars, valVars>>

RunCommand == \E l \in Loops : RunCommandOf(l)

\* changed() is pending: the select goes on to poll the second arm.
PollRecvOf(l) ==
    /\ loop[l].st = "running"
    /\ RecvArmEnabled(chan, loop[l].seen)
    /\ loop' = [loop EXCEPT ![l].st = "polling"]
    /\ UNCHANGED <<chan, dropped, shutRes, received, lateRecv, tasks,
                   cmdHandled, lastTask, pipeVars, txnVars, bufVars, valVars>>

PollRecv == \E l \in Loops : PollRecvOf(l)

\* The second arm of the select, recv_from(), is polled. It is pending and
\* the task sleeps until it is woken, or it failed, or the datagram is
\* passed to process_request, which fails for a datagram that does not
\* parse and else has the CallResult of the service handed to
\* handle_final_call_result.
RunRecvOf(l) ==
    /\ loop[l].st = "polling"
    /\ \/ /\ loop' = [loop EXCEPT ![l].st = "running"]
          /\ UNCHANGED <<received, lateRecv, tasks>>
       \/ /\ loop' = [loop EXCEPT ![l].st = "err", ![l].why = RecvError]
          /\ UNCHANGED <<received, lateRecv, tasks>>
       \/ \E addr \in Addrs, parses \in BOOLEAN :
             /\ received' = Min(received + 1, MaxDgrams)
             /\ lateRecv' = (lateRecv \/ shutRes.res = "Ok")
             /\ IF ProcessRequest(parses) = "Err"
                THEN /\ loop' = [loop EXCEPT ![l].st = "err",
                                             ![l].why = ProcessError]
                     /\ UNCHANGED tasks
                ELSE /\ Len(tasks) < MaxTasks
                     /\ \E cr \in ServiceResults(addr) :
                           tasks' = Append(tasks,
                                [resp |-> cr.resp, cmd |-> cr.cmd,
                                 addr |-> addr])
                     /\ loop' = [loop EXCEPT ![l].st = "running"]
    /\ UNCHANGED <<chan, dropped, shutRes, cmdHandled, lastTask, pipeVars,
                   txnVars, bufVars, valVars>>

RunRecv == \E l \in Loops : RunRecvOf(l)

LoopStep(l) == RunCommandOf(l) \/ PollRecvOf(l) \/ RunRecvOf(l)

\* Every run() that was started has returned, and one was.
Returned(lp) ==
    /\ \E l \in Loops : lp[l].st \notin {"new", "running", "polling"}
    /\ \A l \in Loops : ~Active(lp[l])

\* The task spawned by handle_final_call_result runs.
RunTask ==
    /\ TaskRuns(loop)
    /\ \E i \in 1..Len(tasks) :
          LET t == tasks[i]
              cr == [resp |-> t.resp, cmd |-> t.cmd]
              data == IF t.resp # None THEN AsDgramSlice(t.resp[1]) ELSE <<>>
          IN /\ chan' = ChannelAfterCallResult(chan, cr)
             /\ cmdHandled' = (cmdHandled \/ t.cmd # None)
             /\ \E polled \in SendPolls(data) :
                   lastTask' = Some([resp |-> t.resp, addr |-> t.addr,
                                     sends |-> FinalCallResult(cr, t.addr,
                                                               polled),
                                     returned |-> Returned(loop)])
             /\ tasks' = RemoveAt(tasks, i)
    /\ UNCHANGED <<loop, dropped, shutRes, received, lateRecv, pipeVars,
                   txnVars, bufVars, valVars>>

\* shutdown() is called.
Shutdown ==
    /\ ~dropped
    /\ chan.ver < MaxSends
    /\ LET r == ShutdownServer(chan, Receivers(loop))
       IN /\ chan' = r.chan
          /\ shutRes' =
                [res |-> r.res,
                 ctx |-> IF \E l \in Loops : Active(loop[l])
                         THEN "active"
                         ELSE IF \E l \in Loops : loop[l].st # "new"
                              THEN "terminated"
                              ELSE "new"]
    /\ UNCHANGED <<loop, dropped, received, lateRecv, tasks, cmdHandled,
                   lastTask, pipeVars, txnVars, bufVars, valVars>>

\* The server is dropped: no run() borrows it any more.
Drop ==
    /\ ~dropped
    /\ \A l \in Loops : ~Active(loop[l])
    /\ dropped' = TRUE
    /\ chan' = DropServer(chan, Receivers(loop))
    /\ UNCHANGED <<loop, shutRes, received, lateRecv, tasks, cmdHandled,
                   lastTask, pipeVars, txnVars, bufVars, valVars>>

NextDgram ==
    StartRun \/ RunCommand \/ PollRecv \/ RunRecv \/ RunTask \/ Shutdown
        \/ Drop

SpecDgram == InitDgram /\ [][NextDgram]_vars

\* The runtime runs every task that is ready.
SpecDgramFair == SpecDgram /\ \A l \in Loops : WF_vars(LoopStep(l))

\* The runtime also runs the spawned tasks.
SpecDgramFairTasks == SpecDgramFair /\ WF_vars(RunTask)

\* A Reconfigure command is placed in the channel.
SendReconfigure ==
    /\ ~dropped
    /\ chan.ver < MaxSends
    /\ chan' = WatchSend(chan, "Reconfigure", Receivers(loop)).chan
    /\ UNCHANGED <<loop, dropped, shutRes, received, lateRecv, tasks,
                   cmdHandled, lastTask, pipeVars, txnVars, bufVars, valVars>>

NextDgramAny ==
    StartRun \/ RunCommand \/ PollRecv \/ RunRecv \/ RunTask \/ Shutdown
        \/ Drop \/ SendReconfigure

SpecDgramAny == InitDgram /\ [][NextDgramAny]_vars

----------------------------------------------------------------------------
(* Claims about DgramServer.                                               *)

Running(l) == Active(loop[l])

\* C15: once shutdown() has placed Shutdown in the channel, every running
\* run() eventually returns, and returns Ok(()), although datagrams keep
\* arriving.
C15_ShutdownStopsRun ==
    \A l \in Loops :
        (Running(l) /\ chan.val = "Shutdown") ~> (loop[l].st = "ok")

\* C16: once shutdown() has returned Ok, no datagram received afterwards is
\* passed to process_request.
C16_NoRequestAfterShutdown == ~lateRecv

\* C17: a run loop that observes Reconfigure changes nothing: it is still
\* running afterwards, with the receive arm open, and the channel, the
\* datagrams counted and the spawned tasks are what they were.
C17_ReconfigureIsNoOp ==
    [][\A l \in Loops :
          (loop[l].st = "running" /\ chan.val = "Reconfigure"
                /\ loop'[l].seen # loop[l].seen)
          => /\ loop'[l].st = "running"
             /\ loop'[l].last = "Reconfigure"
             /\ RecvArmEnabled(chan', loop'[l].seen)
             /\ \A m \in Loops \ {l} : loop'[m] = loop[m]
             /\ UNCHANGED <<chan, dropped, shutRes, received, lateRecv,
                            tasks, cmdHandled, lastTask>>]_vars

C17_Witness ==
    \E l \in Loops :
        /\ loop[l].st = "polling"
        /\ loop[l].last = "Reconfigure"
        /\ loop[l].seen = chan.ver
        /\ tasks # <<>>

\* C18: the command a run loop reads after a change notification is never
\* Init nor CloseConnection, so no unreachable!() is executed; a CallResult
\* that carries a command puts no command into the channel.
C18_NoUnreachableCommand ==
    /\ chan.val \in {"Init", "Shutdown"}
    /\ chan.val = "Init" <=> chan.ver = 0
    /\ \A l \in Loops :
          /\ loop[l].st # "panic"
          /\ loop[l].last \in {"none", "Shutdown"}

C18_Witness ==
    /\ cmdHandled
    /\ received > 0
    /\ \E l \in Loops : loop[l].st = "ok" /\ loop[l].last = "Shutdown"

\* C19: shutdown() returns CommandCouldNotBeSent only if the server had
\* already terminated, and returns Ok whenever a run loop is active, on a
\* repeated call too.
C19_ShutdownOkWhileActive ==
    /\ shutRes.res = "CommandCouldNotBeSent" => shutRes.ctx = "terminated"
    /\ shutRes.ctx = "active" => shutRes.res = "Ok"

C19_Witness ==
    /\ shutRes.ctx = "active"
    /\ shutRes.res = "Ok"
    /\ chan.ver >= 2

\* C20: dropping the server places Shutdown in the channel as a call of
\* shutdown() does, and the drop completes whatever the send returns.
C20_DropShutsDown ==
    dropped => /\ chan.val = "Shutdown"
               /\ chan.ver >= 1

C20_Witness ==
    /\ dropped
    /\ shutRes.res = "none"
    /\ chan = [val |-> "Shutdown", ver |-> 1]
    /\ \E l \in Loops : loop[l].st = "new"

\* C21: a transport I/O error on one datagram, a failed recv_from or a
\* failed send_to, does not terminate the run loop.
C21_IoErrorIgnored ==
    \A l \in Loops : ~(loop[l].st = "err" /\ loop[l].why = RecvError)

\* C22: a datagram that fails to parse is dropped and the run loop goes on:
\* it does not return with the error of process_request.
C22_ParseFailureDropped ==
    \A l \in Loops : ~(loop[l].st = "err" /\ loop[l].why = ProcessError)

\* C23: after a short send the response is lost, nothing is sent again,
\* and the error is logged.
C23_ShortSendLogged ==
    (lastTask # None /\ lastTask[1].sends # <<>>
        /\ lastTask[1].sends[1].res = "ShortSend")
    => /\ Len(lastTask[1].sends) = 1
       /\ ShortSendError \in ErrorLog

\* C24: a task whose CallResult has a response makes exactly one send_to,
\* to the peer the request came from, of the response without its two
\* octet length prefix; a task whose CallResult has no response sends
\* nothing.
C24_OneSendPerResponse ==
    lastTask # None =>
        LET t == lastTask[1]
        IN IF t.resp # None
           THEN /\ Len(t.sends) = 1
                /\ t.sends[1].dest = t.addr
                /\ Len(t.resp[1]) = Len(t.sends[1].data) + 2
                /\ \A k \in 1..Len(t.sends[1].data) :
                      t.sends[1].data[k] = t.resp[1][k + 2]
           ELSE t.sends = <<>>

C24_Witness ==
    /\ lastTask # None
    /\ lastTask[1].addr = "peerB"
    /\ lastTask[1].resp = Some(<<0, 3, 7, 8, 9>>)
    /\ lastTask[1].sends = <<[dest |-> "peerB", data |-> <<7, 8, 9>>,
                              res |-> "Ok"]>>

----------------------------------------------------------------------------
(* VecBufSource (net/server/buf.rs). The buffers handed out live in bufs;  *)
(* a reference is an index into it. The owner of a buffer may write to it. *)

\* vec![0; n]
Zeros(n) == [k \in 1..n |-> 0]

\* sizes asked of create_sized()
Sizes == {0, 1, 2}

\* A pooling source: create_sized() hands out the first buffer again when
\* there is one.
CreateSizedPooled(heap, size) ==
    IF heap # <<>>
    THEN [heap |-> heap, ref |-> 1]
    ELSE [heap |-> Append(heap, Zeros(size)), ref |-> Len(heap) + 1]

\* create_sized(size): a new Vec of size zero octets.
CreateSized(heap, size) ==
    [heap |-> Append(heap, Zeros(size)), ref |-> Len(heap) + 1]

\* create_buf(): a new Vec of 1024 zero octets.
CreateBuf(heap) ==
    [heap |-> Append(heap, Zeros(DefaultBufLen)), ref |-> Len(heap) + 1]

InitBuf ==
    /\ bufs = <<>>
    /\ lastRef = None
    /\ lastRecv = None
    /\ PipeOff
    /\ TxnOff
    /\ DgramOff
    /\ ValOff

Calls == IF lastRef = None THEN 0 ELSE lastRef[1].call

BufCreateBuf ==
    /\ Calls < MaxBufs
    /\ LET r == CreateBuf(bufs)
       IN /\ bufs' = r.heap
          /\ lastRef' = Some([fn |-> "create_buf", size |-> DefaultBufLen,
                              ref |-> r.ref, call |-> Calls + 1])
    /\ UNCHANGED <<lastRecv, pipeVars, txnVars, dgramVars,
                   valVars>>

BufCreateSized ==
    /\ Calls < MaxBufs
    /\ \E size \in Sizes :
          LET r == CreateSized(bufs, size)
          IN /\ bufs' = r.heap
             /\ lastRef' = Some([fn |-> "create_sized", size |-> size,
                                 ref |-> r.ref, call |-> Calls + 1])
    /\ UNCHANGED <<lastRecv, pipeVars, txnVars, dgramVars,
                   valVars>>

\* The owner of a buffer writes an octet at its start or at its end.
BufWrite ==
    /\ \E ref \in 1..Len(bufs) :
          /\ bufs[ref] # <<>>
          /\ \E pos \in {1, Len(bufs[ref])} :
                bufs' = [bufs EXCEPT ![ref][pos] = 255]
    /\ UNCHANGED <<lastRef, lastRecv, pipeVars, txnVars, dgramVars,
                   valVars>>

NextBuf == BufCreateBuf \/ BufCreateSized \/ BufWrite

SpecBuf == InitBuf /\ [][NextBuf]_vars

\* C25: a call of create_buf() or create_sized(n) returns a reference that
\* was not handed out before, to a buffer of 1024 or of n octets, all
\* zero, and leaves every earlier buffer as it is.
C25_FreshZeroBuffers ==
    [][lastRef' # lastRef =>
          LET r == lastRef'[1]
          IN /\ r.ref \notin 1..Len(bufs)
             /\ r.ref \in 1..Len(bufs')
             /\ Len(bufs'[r.ref]) = r.size
             /\ r.fn = "create_buf" => r.size = 1024
             /\ \A k \in 1..r.size : bufs'[r.ref][k] = 0
             /\ \A i \in 1..Len(bufs) : bufs'[i] = bufs[i]]_vars

C25_Witness ==
    /\ Len(bufs) = 3
    /\ bufs[1] = <<255, 255>>
    /\ bufs[2] = <<>>
    /\ lastRef # None
    /\ lastRef[1].fn = "create_buf"
    /\ lastRef[1].ref = 3
    /\ Len(bufs[3]) = 1024
    /\ bufs[3][1] = 0
    /\ bufs[3][1024] = 0

----------------------------------------------------------------------------
(* Claims about MiddlewareChain::preprocess.                               *)

PreDone == pc \in {"service", "post", "posted", "sent"}

\* C26: preprocess invokes the processors in ascending index order and
\* stops at the first Break: the processors after it are not invoked, the
\* index returned is that of the breaking processor, and the transaction
\* returned yields exactly one item, Ok(CallResult) with the response of
\* that processor and no command; without a Break every processor is
\* invoked once and the result is Continue.
C26_PreprocessStopsAtFirstBreak ==
    PreDone =>
        LET breakers ==
                {i \in 0..(Len(chain) - 1) :
                    ProcPreprocess(chain[i + 1], request0).flow = "Break"}
        IN IF breakers = {}
           THEN /\ flow = "Continue"
                /\ preLog = Up(Len(chain))
                /\ lastIdx = None
                /\ txn0 = None
           ELSE LET first == CHOOSE i \in breakers :
                                \A j \in breakers : i <= j
                    n1 == TransactionNext(txn0[1])
                    n2 == TransactionNext(n1.txn)
                IN /\ flow = "Break"
                   /\ lastIdx = Some(first)
                   /\ preLog = Up(first + 1)
                   /\ n1.item # None
                   /\ n1.item[1].ok
                   /\ n1.item[1].result.response
                        = ProcPreprocess(chain[first + 1], request).response[1]
                   /\ n1.item[1].result.command = None
                   /\ n2.item = None

C26_Witness ==
    /\ pc = "post"
    /\ flow = "Break"
    /\ chain = <<"Scramble", "Refuse", "Mandatory">>
    /\ preLog = <<0, 1>>
    /\ lastIdx = Some(1)
    /\ txn # None
    /\ TransactionNext(txn[1]).item[1].result.response.rcode = "Refused"

----------------------------------------------------------------------------
(* More properties of the mandatory processor, checked under               *)
(* SpecMandatory.                                                          *)

Truncates(req, resp) == UdpHinted(req) /\ MsgLen(resp) > req.hint[1]

----------------------------------------------------------------------------
(* Claims about the shutdown of a DgramServer and its run loops.           *)

\* C29: a run() started after shutdown() was called finds the Shutdown
\* command on its first pass through the select: it never polls
\* recv_from(), passes no datagram to process_request, and returns Ok.
C29_ShutdownBeforeRun ==
    /\ [](\A l \in Loops :
            loop[l].afterShut =>
                /\ loop[l].st \in {"running", "ok"}
                /\ loop[l].st = "running" =>
                      /\ ChangedReady(chan, loop[l].seen)
                      /\ chan.val = "Shutdown"
                /\ loop[l].st = "ok" => loop[l].last = "Shutdown")
    /\ \A l \in Loops :
          (loop[l].afterShut /\ loop[l].st = "running") ~> (loop[l].st = "ok")

C29_Witness ==
    /\ shutRes = [res |-> "Ok", ctx |-> "new"]
    /\ received = 0
    /\ \A l \in Loops :
          /\ loop[l].afterShut
          /\ loop[l].st = "ok"
          /\ loop[l].last = "Shutdown"

\* C30: when run() executes in several tasks, one shutdown() makes every
\* one of the run loops observe Shutdown and return.
C30_EveryLoopObservesShutdown ==
    ((\A l \in Loops : Active(loop[l])) /\ chan.val = "Shutdown")
        ~> (\A l \in Loops : loop[l].st = "ok" /\ loop[l].last = "Shutdown")

----------------------------------------------------------------------------
(* Work dispatched before a shutdown.                                      *)

\* C31: shutdown cancels no work already dispatched: a spawned task leaves
\* the pending tasks only by running, with the one send_to of its response,
\* and the tasks still pending when every run() has returned are run,
\* unless run() is called again before.
C31_DispatchedWorkCompletes ==
    /\ [][Len(tasks') < Len(tasks) =>
            \E i \in 1..Len(tasks) :
                /\ tasks' = RemoveAt(tasks, i)
                /\ lastTask' # None
                /\ lastTask'[1].resp = tasks[i].resp
                /\ lastTask'[1].addr = tasks[i].addr
                /\ tasks[i].resp # None => Len(lastTask'[1].sends) = 1]_vars
    /\ (Returned(loop) /\ tasks # <<>>) ~> (tasks = <<>> \/ ~Returned(loop))

C31_Witness ==
    /\ \A l \in Loops : loop[l].st = "ok" /\ loop[l].last = "Shutdown"
    /\ tasks = <<>>
    /\ lastTask # None
    /\ lastTask[1].returned
    /\ lastTask[1].sends # <<>>
    /\ lastTask[1].sends[1].res = "Ok"

----------------------------------------------------------------------------
(* DgramServer::recv_from with a VecBufSource, and the buffer that          *)
(* run_until_error passes on. A datagram is n octets, none of them zero.   *)

\* recv_from(): a buffer from the source, filled from its start by
\* poll_recv_from() with as much of the datagram as it holds; the buffer
\* and the number of octets filled are returned.
RecvFrom(heap, n) ==
    LET r == CreateBuf(heap)
        bytes_read == Min(n, Len(r.heap[r.ref]))
    IN [heap |-> [r.heap EXCEPT ![r.ref] =
                    [k \in 1..Len(@) |-> IF k <= bytes_read THEN 1 ELSE @[k]]],
        res |-> r.ref,
        bytes_read |-> bytes_read]

InitRecv ==
    /\ bufs = <<>>
    /\ lastRef = None
    /\ lastRecv = None
    /\ PipeOff
    /\ TxnOff
    /\ DgramOff
    /\ ValOff

\* The receive arm of the select: the buffer recv_from() returned is the
\* msg passed to process_request; bytes_read goes to the trace only.
RecvDatagram ==
    /\ lastRecv = None
    /\ \E n \in 0..MaxDgramLen :
          LET r == RecvFrom(<<>>, n)
          IN /\ bufs' = r.heap
             /\ lastRecv' = Some([msg |-> r.res, bytes_read |-> r.bytes_read])
    /\ UNCHANGED <<lastRef, pipeVars, txnVars, dgramVars,
                   valVars>>

\* process_request has taken the message; the loop goes round.
RecvProcessed ==
    /\ lastRecv # None
    /\ bufs' = <<>>
    /\ lastRecv' = None
    /\ UNCHANGED <<lastRef, pipeVars, txnVars, dgramVars,
                   valVars>>

NextRecv == RecvDatagram \/ RecvProcessed

SpecRecv == InitRecv /\ [][NextRecv]_vars

\* C32: the buffer passed to process_request is as long as the datagram
\* received: its length is bytes_read.
C32_MessageLenIsBytesRead ==
    lastRecv # None => Len(bufs[lastRecv[1].msg]) = lastRecv[1].bytes_read

----------------------------------------------------------------------------
(* The validating client: net/client/validator.rs.                          *)

\* calls of get_response on one Request
MaxGets == 2

\* A resource record of a response: its type and what tells it from the
\* others of its section; the last five fields are those of an OPT record,
\* its options being a cookie or the extended error of the validator.
VRR(rtype, data) ==
    [rtype |-> rtype, data |-> data, do |-> FALSE, udp |-> 0, version |-> 0,
     rcode |-> 0, options |-> <<>>]

VOpt(do, udp, version, rcode, options) ==
    [rtype |-> "OPT", data |-> 0, do |-> do, udp |-> udp,
     version |-> version, rcode |-> rcode, options |-> options]

\* The requests a caller composes: ComposeRequest gives the validator the
\* DO flag and the header, of which it reads CD and AD.
VRequests == [do : BOOLEAN, cd : BOOLEAN, ad : BOOLEAN]

VQuestions == {<<>>, <<"A">>, <<"RRSIG">>, <<"DNSKEY">>}

VSections ==
    { [answer |-> <<VRR("A", 1), VRR("RRSIG", 2), VRR("A", 3)>>,
       authority |-> <<VRR("NS", 1), VRR("RRSIG", 2)>>,
       additional |-> <<VRR("A", 1),
                        VOpt(TRUE, 1232, 0, 0, <<"COOKIE">>),
                        VRR("RRSIG", 2)>>],
      [answer |-> <<VRR("DNSKEY", 1), VRR("RRSIG", 2), VRR("NSEC", 3)>>,
       authority |-> <<VRR("SOA", 1), VRR("NSEC", 2), VRR("RRSIG", 3),
                       VRR("NSEC3", 4), VRR("NS", 5)>>,
       additional |-> <<VOpt(FALSE, 4096, 1, 1, <<>>), VRR("DNSKEY", 1),
                        VOpt(TRUE, 512, 0, 0, <<"COOKIE">>),
                        VRR("A", 2)>>],
      [answer |-> <<VRR("RRSIG", 1), VRR("NSEC3", 2), VRR("A", 3)>>,
       authority |-> <<VRR("DNSKEY", 1)>>,
       additional |-> <<VRR("A", 1), VRR("A", 2)>>] }

VMessage(ad, cd, malformed, question, sections) ==
    [ad |-> ad, cd |-> cd, rcode |-> 0, malformed |-> malformed,
     question |-> question, answer |-> sections.answer,
     authority |-> sections.authority, additional |-> sections.additional]

\* What an upstream can answer: messages whose records all parse, and
\* messages with a record that does not.
VResponses ==
    {VMessage(ad, cd, FALSE, q, b) :
        ad \in BOOLEAN, cd \in BOOLEAN, q \in VQuestions, b \in VSections}
    \cup
    {VMessage(ad, cd, TRUE, <<"A">>, b) :
        ad \in BOOLEAN, cd \in BOOLEAN,
        b \in {x \in VSections : Len(x.authority) = 2}}

\* What validator::validate_msg returns: Err, or a state and an Option of
\* an extended error.
ValidationStates == {"Secure", "Insecure", "Indeterminate", "Bogus"}

Validations ==
    {[state |-> "Err", ede |-> None]}
    \cup {[state |-> st, ede |-> None] : st \in ValidationStates}
    \cup {[state |-> st, ede |-> Some("EDE")] :
             st \in {"Insecure", "Indeterminate"}}

VOk(msg) == [kind |-> "Ok", msg |-> Some(msg)]
VErr == [kind |-> "Err", msg |-> None]
VPanic == [kind |-> "Panic", msg |-> None]

\* is_dnssec
IsDnssec(rtype) ==
    \/ rtype = "DNSKEY"
    \/ rtype = "RRSIG"
    \/ rtype = "NSEC"
    \/ rtype = "NSEC3"

\* Message::opt(): the first OPT record of the additional section.
MessageOpt(msg) ==
    LET opts == SelectSeq(msg.additional, LAMBDA rr : rr.rtype = "OPT")
    IN IF opts = <<>> THEN None ELSE Some(opts[1])

\* The qtype remove_dnssec ends its walk of the question section with.
LastQtype(question) ==
    IF question = <<>> THEN "ANY" ELSE question[Len(question)]

StripAnswer(answer, qtype) ==
    SelectSeq(answer, LAMBDA rr : ~(IsDnssec(rr.rtype) /\ rr.rtype # qtype))

StripSectionRrsigOnly(section) ==
    SelectSeq(section, LAMBDA rr : rr.rtype # "RRSIG")

\* The walks of the authority and of the additional section.
StripSection(section) ==
    SelectSeq(section, LAMBDA rr : ~IsDnssec(rr.rtype))

StripAdditional(additional) ==
    StripSection(SelectSeq(additional, LAMBDA rr : rr.rtype # "OPT"))

\* The OPT record remove_dnssec builds from the one of its input: the
\* extended rcode is not copied.
RebuildOpt(opt) ==
    IF opt = None THEN <<>>
    ELSE <<VOpt(FALSE, opt[1].udp, opt[1].version, 0, opt[1].options)>>

\* remove_dnssec
RemoveDnssec(msg, ad) ==
    IF msg.malformed THEN VErr
    ELSE VOk([msg EXCEPT
                !.ad = ad,
                !.cd = FALSE,
                !.answer = StripAnswer(@, LastQtype(msg.question)),
                !.authority = StripSection(@),
                !.additional = StripAdditional(@) \o RebuildOpt(MessageOpt(msg))])

\* add_opt: the message again, its OPT record last and the extended error
\* added to its options; without an OPT record the error is left out.
AddOpt(msg, ede) ==
    IF msg.malformed THEN VErr
    ELSE LET opt == MessageOpt(msg)
             rest == SelectSeq(msg.additional, LAMBDA rr : rr.rtype # "OPT")
         IN VOk([msg EXCEPT
                   !.additional =
                       IF opt = None THEN rest
                       ELSE Append(rest,
                                VOpt(opt[1].do, opt[1].udp, opt[1].version, 0,
                                     Append(opt[1].options, ede)))])

UpstreamRequestKeepsCd(req) == [req EXCEPT !.do = TRUE]

\* The request sent upstream: DO and CD are set in request_msg itself.
UpstreamRequest(req) == [req EXCEPT !.do = TRUE, !.cd = TRUE]

UncheckedClearsCd(response_msg) ==
    [response_msg EXCEPT !.ad = FALSE, !.cd = FALSE]

\* The branch taken when cd is set: the response with AD cleared.
Unchecked(response_msg) ==
    IF response_msg.ad THEN [response_msg EXCEPT !.ad = FALSE]
    ELSE response_msg

\* The response with AD as given and CD cleared.
WithFlags(response_msg, ad) == [response_msg EXCEPT !.ad = ad, !.cd = FALSE]

\* The match on what validate_msg returned.
Validated(req, dnssec_ok, response_msg, validation) ==
    CASE validation.state = "Err" ->
            [res |-> VPanic, input |-> None]
      [] validation.state = "Bogus" ->
            [res |-> VPanic, input |-> None]
      [] validation.state = "Secure" ->
            IF dnssec_ok
            THEN [res |-> VOk(WithFlags(response_msg, TRUE)), input |-> None]
            ELSE [res |-> RemoveDnssec(response_msg, req.ad),
                  input |-> Some(response_msg)]
      [] OTHER ->
            LET added == IF validation.ede = None THEN VOk(response_msg)
                         ELSE AddOpt(response_msg, validation.ede[1])
            IN IF added.kind # "Ok" THEN [res |-> VPanic, input |-> None]
               ELSE IF dnssec_ok
               THEN [res |-> VOk(WithFlags(added.msg[1], FALSE)),
                     input |-> None]
               ELSE [res |-> RemoveDnssec(added.msg[1], FALSE),
                     input |-> Some(added.msg[1])]

\* Request::get_response_impl: request_msg as the call leaves it, what the
\* upstream was sent and what it answered, whether validate_msg was called
\* and with what result, the input of remove_dnssec if it was called, and
\* what the call returned.
GetResponseImpl(req, upstream, validation) ==
    LET dnssec_ok == req.do
        cd == req.cd
        request_msg == UpstreamRequest(req)
        call == [request_msg |-> request_msg, sent |-> request_msg,
                 upstream |-> upstream]
    IN IF upstream = None
       THEN call @@ [validated |-> FALSE, state |-> None, input |-> None,
                     res |-> VErr]
       ELSE IF cd
       THEN call @@ [validated |-> FALSE, state |-> None, input |-> None,
                     res |-> VOk(Unchecked(upstream[1]))]
       ELSE LET v == Validated(request_msg, dnssec_ok, upstream[1], validation)
            IN call @@ [validated |-> TRUE, state |-> Some(validation.state),
                        input |-> v.input, res |-> v.res]

InitVal ==
    /\ vreq = None
    /\ vreq0 = None
    /\ vout = None
    /\ vcalls = 0
    /\ PipeOff
    /\ TxnOff
    /\ DgramOff
    /\ BufOff

\* Connection::send_request: a Request holding the caller's message.
ValSendRequest ==
    /\ vreq = None
    /\ \E req \in VRequests :
          /\ vreq' = Some(req)
          /\ vreq0' = Some(req)
    /\ UNCHANGED <<vout, vcalls, pipeVars, txnVars, dgramVars, bufVars>>

Panicked == vout # None /\ vout[1].res.kind = "Panic"

\* GetResponse::get_response on the Request, awaited to its end.
ValGetResponse ==
    /\ vreq # None
    /\ ~Panicked
    /\ vcalls < MaxGets
    /\ \E upstream \in {None} \cup {Some(m) : m \in VResponses},
          validation \in Validations :
          LET r == GetResponseImpl(vreq[1], upstream, validation)
          IN /\ vreq' = Some(r.request_msg)
             /\ vout' = Some(r)
             /\ vcalls' = vcalls + 1
    /\ UNCHANGED <<vreq0, pipeVars, txnVars, dgramVars, bufVars>>

NextVal == ValSendRequest \/ ValGetResponse

SpecVal == InitVal /\ [][NextVal]_vars

\* The last call of get_response, when one was made.
Called == vout # None
LastCall == vout[1]
CallerRequest == vreq0[1]

\* C33: the request sent upstream has DO and CD set, whatever the DO and
\* CD flags of the caller's request were.
C33_UpstreamHasDoAndCd ==
    Called => LastCall.sent.do /\ LastCall.sent.cd

C33_Witness ==
    /\ Called
    /\ ~CallerRequest.do
    /\ ~CallerRequest.cd
    /\ LastCall.sent.do
    /\ LastCall.sent.cd

\* C34: when the caller's request has CD set, get_response returns the
\* upstream response without validating it: AD is cleared, every other
\* header field and every record is as the upstream sent it.
C34_CdReturnsUnchecked ==
    (Called /\ CallerRequest.cd) =>
        /\ ~LastCall.validated
        /\ LastCall.upstream = None => LastCall.res = VErr
        /\ LastCall.upstream # None =>
              /\ LastCall.res.kind = "Ok"
              /\ LastCall.res.msg[1] = [LastCall.upstream[1] EXCEPT !.ad = FALSE]

C34_Witness ==
    /\ Called
    /\ CallerRequest.cd
    /\ LastCall.upstream # None
    /\ LastCall.upstream[1].ad
    /\ LastCall.upstream[1].cd
    /\ LastCall.res.kind = "Ok"
    /\ ~LastCall.res.msg[1].ad

\* C35: a response returned has AD = 1 only if the caller's request had CD
\* clear and validation returned Secure; a response returned for a request
\* with CD clear has CD = 0, has AD = 1 when the state is Secure and the
\* caller set DO, has the AD of the request when the state is Secure and
\* the caller did not set DO, and has AD = 0 when the state is Insecure or
\* Indeterminate.
C35_AdAndCdOfResponse ==
    (Called /\ LastCall.res.kind = "Ok") =>
        LET msg == LastCall.res.msg[1]
        IN /\ msg.ad => ~CallerRequest.cd /\ LastCall.state = Some("Secure")
           /\ ~CallerRequest.cd =>
                 /\ ~msg.cd
                 /\ (LastCall.state = Some("Secure") /\ CallerRequest.do)
                       => msg.ad
                 /\ (LastCall.state = Some("Secure") /\ ~CallerRequest.do)
                       => msg.ad = CallerRequest.ad
                 /\ LastCall.state \in {Some("Insecure"), Some("Indeterminate")}
                       => ~msg.ad

\* The record types remove_dnssec is to remove.
DnssecTypes == {"DNSKEY", "RRSIG", "NSEC", "NSEC3"}

\* remove_dnssec was called and returned a message.
Stripped == Called /\ LastCall.input # None /\ LastCall.res.kind = "Ok"

\* C36: remove_dnssec removes from the answer section the RRSIG records
\* only, and none when the query type is RRSIG; every other answer record
\* is kept, in its order.
C36_AnswerLosesRrsigOnly ==
    Stripped =>
        LET in == LastCall.input[1]
            out == LastCall.res.msg[1]
        IN out.answer =
              IF LastQtype(in.question) = "RRSIG" THEN in.answer
              ELSE SelectSeq(in.answer, LAMBDA rr : rr.rtype # "RRSIG")

\* C37: the message remove_dnssec returns has no DNSKEY, RRSIG, NSEC or
\* NSEC3 record in its authority and additional sections, keeps the other
\* records of those sections that are not OPT in their order, has CD = 0,
\* and has an OPT record exactly if the input had one: with DO cleared and
\* the UDP payload size, the version and the options of the input's.
C37_AuthorityAndAdditionalStripped ==
    Stripped =>
        LET in == LastCall.input[1]
            out == LastCall.res.msg[1]
            Kept(section) ==
                SelectSeq(section,
                          LAMBDA rr : rr.rtype \notin DnssecTypes \cup {"OPT"})
            Opts(section) == SelectSeq(section, LAMBDA rr : rr.rtype = "OPT")
        IN /\ out.authority =
                 SelectSeq(in.authority, LAMBDA rr : rr.rtype \notin DnssecTypes)
           /\ Kept(out.additional) = Kept(in.additional)
           /\ \A k \in 1..Len(out.additional) :
                 out.additional[k].rtype \notin DnssecTypes
           /\ ~out.cd
           /\ Opts(out.additional) = <<>> <=> Opts(in.additional) = <<>>
           /\ Len(Opts(out.additional)) <= 1
           /\ Opts(out.additional) # <<>> =>
                 LET o == Opts(out.additional)[1]
                     i == Opts(in.additional)[1]
                 IN /\ ~o.do
                    /\ o.udp = i.udp
                    /\ o.version = i.version
                    /\ o.options = i.options

C37_Witness ==
    /\ Stripped
    /\ LastCall.input[1].cd
    /\ Len(LastCall.input[1].authority) = 5
    /\ Len(LastCall.res.msg[1].authority) = 2
    /\ Len(LastCall.res.msg[1].additional) = 2
    /\ LastCall.res.msg[1].additional[2].udp = 4096
    /\ LastCall.res.msg[1].additional[2].options = <<"EDE">>

\* C38: get_response never panics: for every outcome of the validation it
\* returns a message or an Error.
C38_NeverPanics ==
    Called => LastCall.res.kind \in {"Ok", "Err"}

\* C39: a second get_response on a Request whose message had CD and DO
\* clear validates the response and strips it of DNSSEC records, as the
\* first did.
C39_SecondCallValidatesAgain ==
    (/\ Called
     /\ vcalls >= 2
     /\ ~CallerRequest.cd
     /\ ~CallerRequest.do
     /\ LastCall.upstream # None) =>
        /\ LastCall.validated
        /\ LastCall.res.kind = "Ok" => LastCall.input # None

====
